---- MODULE Spec2Model ----
(***************************************************************************)
(* CountESS minimap2 plugin.                                               *)
(*                                                                         *)
(* Two parts of the plugin are modelled:                                   *)
(*   - cs_to_hgvs (src/countess_minimap2.py), the conversion of a minimap2 *)
(*     difference string into a HGVS descriptor: specification SpecCs,     *)
(*     one step per loop iteration;                                        *)
(*   - MiniMap2Plugin.prepare / output_dict / process_value, in the two    *)
(*     versions of the plugin that the repository holds                    *)
(*     (src/countess_minimap2.py, VERSION 0.0.10, and                      *)
(*     src/src/countess_minimap2.py, VERSION 0.0.13): specification Spec.  *)
(*                                                                         *)
(* A Python str is a sequence of one-character strings, so that slicing,   *)
(* len() and the regular expression are computed as the code computes      *)
(* them; text produced by f-strings is a TLA+ string.                      *)
(***************************************************************************)
EXTENDS Integers, Sequences, FiniteSets, TLC

VARIABLES
    \* ---- cs_to_hgvs -------------------------------------------------
    cs_pc,        \* "off" | "call" | "loop" | "done"
    cs_string,    \* argument cs_string
    ctg,          \* argument ctg
    start,        \* argument offset, as passed
    offset,       \* local offset
    ops,          \* the list re.findall() returned
    nops,         \* number of list elements the for loop has consumed
    op,           \* loop variable op (<<>> before the first iteration)
    prev_offset,  \* value of offset when the current iteration started
    hgvs_ops,     \* local hgvs_ops
    lead,         \* for each element of hgvs_ops, the first number its f-string formats
    cs_result,    \* returned string
    \* ---- MiniMap2Plugin ---------------------------------------------
    version,      \* "v10" (src/countess_minimap2.py) | "v13" (src/src/countess_minimap2.py)
    parameters,   \* the values of self.parameters
    aligner,      \* self.aligner
    pv_pc,        \* "off" | "idle" | "returned"
    value,        \* argument of the last process_value call
    hits,         \* what aligner.map() would yield for that call, in order
    pulled,       \* how many hits the for loop pulled from the generator
    queried,      \* whether aligner.map() was called
    selected,     \* index of the hit the record was built from, 0 if none
    result        \* return value of the last process_value call

csVars == <<cs_pc, cs_string, ctg, start, offset, ops, nops, op, prev_offset, hgvs_ops, lead, cs_result>>
plVars == <<version, parameters, aligner, pv_pc, value, hits, pulled, queried, selected, result>>
vars == <<csVars, plVars>>

(***************************************************************************)
(* Bounds                                                                  *)
(***************************************************************************)
MaxPieces == 3      \* a difference string is made of at most this many pieces
MaxHits == 2        \* aligner.map() yields at most this many hits

(***************************************************************************)
(* Python values                                                           *)
(***************************************************************************)
None == [isNone |-> TRUE]
Some(v) == [isNone |-> FALSE, v |-> v]
IsNone(x) == x.isNone

Last(s) == s[Len(s)]

\* str.upper()
LowerCase == <<"a", "c", "g", "t", "n", "x">>
UpperCase == <<"A", "C", "G", "T", "N", "X">>
UpperChar(c) ==
    IF \E k \in 1..Len(LowerCase) : LowerCase[k] = c
    THEN UpperCase[CHOOSE k \in 1..Len(LowerCase) : LowerCase[k] = c]
    ELSE c
upper(s) == [k \in 1..Len(s) |-> UpperChar(s[k])]

\* the characters of a str joined into text, as an f-string prints them
RECURSIVE Text(_)
Text(s) == IF s = <<>> THEN "" ELSE s[1] \o Text(Tail(s))

\* int() of a string of decimal digits
Digits == <<"0", "1", "2", "3", "4", "5", "6", "7", "8", "9">>
DigitSet == {Digits[k] : k \in 1..Len(Digits)}    \* [0-9]
DigitVal(c) == (CHOOSE k \in 1..Len(Digits) : Digits[k] = c) - 1
RECURSIVE int(_)
int(s) == IF s = <<>> THEN 0 ELSE int(SubSeq(s, 1, Len(s) - 1)) * 10 + DigitVal(Last(s))

\* s[a::3] with a given as a 0-based Python index
RECURSIVE SliceStep3(_, _)
SliceStep3(s, a) == IF a + 1 > Len(s) THEN <<>> ELSE <<s[a + 1]>> \o SliceStep3(s, a + 3)

\* ";".join(xs)
RECURSIVE join(_, _)
join(sep, xs) ==
    IF xs = <<>> THEN ""
    ELSE IF Len(xs) = 1 THEN xs[1]
    ELSE xs[1] \o sep \o join(sep, Tail(xs))

(***************************************************************************)
(* CS_STRING_RE and re.findall                                             *)
(***************************************************************************)
IdentBases == {"A", "C", "T", "G", "N"}     \* [ACTGTN]
Bases == {"A", "C", "G", "T", "N"}          \* [ACGTN]

\* length of the longest run of characters of class cls starting at position k
RECURSIVE RunLen(_, _, _)
RunLen(s, k, cls) ==
    IF k <= Len(s) /\ s[k] \in cls THEN 1 + RunLen(s, k + 1, cls) ELSE 0

\* number of contiguous groups \*[ACGTN][ACGTN] starting at position k
RECURSIVE SubstGroups(_, _)
SubstGroups(s, k) ==
    IF k + 2 <= Len(s) /\ s[k] = "*" /\ s[k + 1] \in Bases /\ s[k + 2] \in Bases
    THEN 1 + SubstGroups(s, k + 3)
    ELSE 0

\* length of the match of CS_STRING_RE that starts at position k, 0 if none
MatchLen(s, k) ==
    CASE s[k] = "=" -> (IF RunLen(s, k + 1, IdentBases) > 0
                        THEN 1 + RunLen(s, k + 1, IdentBases) ELSE 0)
      [] s[k] = ":" -> (IF RunLen(s, k + 1, DigitSet) > 0
                        THEN 1 + RunLen(s, k + 1, DigitSet) ELSE 0)
      [] s[k] = "*" -> 3 * SubstGroups(s, k)
      [] s[k] = "+" -> (IF RunLen(s, k + 1, Bases) > 0 THEN 1 + RunLen(s, k + 1, Bases) ELSE 0)
      [] s[k] = "-" -> (IF RunLen(s, k + 1, Bases) > 0 THEN 1 + RunLen(s, k + 1, Bases) ELSE 0)
      [] OTHER -> 0

\* re.findall(CS_STRING_RE, s): the non-overlapping matches, left to right;
\* a character at which no match starts is skipped
RECURSIVE findall(_, _)
findall(s, k) ==
    IF k > Len(s) THEN <<>>
    ELSE IF MatchLen(s, k) = 0 THEN findall(s, k + 1)
    ELSE <<SubSeq(s, k, k + MatchLen(s, k) - 1)>> \o findall(s, k + MatchLen(s, k))

(***************************************************************************)
(* cs_to_hgvs: the body of the for loop, on the loop state                  *)
(*   st = [offset, hgvs_ops, lead]                                         *)
(***************************************************************************)
\* op[0] == ":"
StepIdenticalRun(st, o) ==
    [st EXCEPT !.offset = st.offset + int(SubSeq(o, 2, Len(o)))]

\* variant of StepIdenticalSeq: the "=" is not counted out of len(op)
StepIdenticalSeqWholeOp(st, o) ==
    [st EXCEPT !.offset = st.offset + Len(o)]

\* op[0] == "="
StepIdenticalSeq(st, o) ==
    [st EXCEPT !.offset = st.offset + (Len(o) - 1)]

\* variant of StepSubstitution: each group of a run is reported on its own
StepSubstitutionFirstOnly(st, o) ==
    [offset |-> st.offset + (Len(o) \div 3),
     hgvs_ops |-> Append(st.hgvs_ops, ToString(st.offset) \o o[2] \o ">" \o o[3]),
     lead |-> Append(st.lead, st.offset)]

\* op[0] == "*"
StepSubstitution(st, o) ==
    [offset |-> st.offset + (Len(o) \div 3),
     hgvs_ops |-> Append(st.hgvs_ops,
        IF Len(o) > 3
        THEN ToString(st.offset) \o "_" \o ToString(st.offset + (Len(o) \div 3) - 1)
                 \o "delins" \o Text(SliceStep3(o, 2))
        ELSE ToString(st.offset) \o o[2] \o ">" \o o[3]),
     lead |-> Append(st.lead, st.offset)]

\* variant of StepInsertion: the offset advances by the inserted length
StepInsertionByLength(st, o) ==
    [offset |-> st.offset + (Len(o) - 1),
     hgvs_ops |-> Append(st.hgvs_ops,
        ToString(st.offset - 1) \o "_" \o ToString(st.offset) \o "ins"
            \o Text(SubSeq(o, 2, Len(o)))),
     lead |-> Append(st.lead, st.offset - 1)]

\* variant of StepInsertion: an insertion takes the offset back by one
StepInsertionBackwards(st, o) ==
    [offset |-> st.offset - 1,
     hgvs_ops |-> Append(st.hgvs_ops,
        ToString(st.offset - 1) \o "_" \o ToString(st.offset) \o "ins"
            \o Text(SubSeq(o, 2, Len(o)))),
     lead |-> Append(st.lead, st.offset - 1)]

\* variant of StepInsertion: anchored one base too early
StepInsertionEarly(st, o) ==
    [offset |-> st.offset + 1,
     hgvs_ops |-> Append(st.hgvs_ops,
        ToString(st.offset - 2) \o "_" \o ToString(st.offset - 1) \o "ins"
            \o Text(SubSeq(o, 2, Len(o)))),
     lead |-> Append(st.lead, st.offset - 2)]

\* op[0] == "+"
StepInsertion(st, o) ==
    [offset |-> st.offset + 1,
     hgvs_ops |-> Append(st.hgvs_ops,
        ToString(st.offset - 1) \o "_" \o ToString(st.offset) \o "ins"
            \o Text(SubSeq(o, 2, Len(o)))),
     lead |-> Append(st.lead, st.offset - 1)]

\* variant of StepDeletion: the end of the range counts the "-" as a base
StepDeletionLongRange(st, o) ==
    [offset |-> st.offset + Len(o),
     hgvs_ops |-> Append(st.hgvs_ops,
        IF Len(o) > 2
        THEN ToString(st.offset) \o "_" \o ToString(st.offset + Len(o) - 1) \o "del"
        ELSE ToString(st.offset) \o "del"),
     lead |-> Append(st.lead, st.offset)]

\* op[0] == "-"
StepDeletion(st, o) ==
    [offset |-> st.offset + Len(o),
     hgvs_ops |-> Append(st.hgvs_ops,
        IF Len(o) > 2
        THEN ToString(st.offset) \o "_" \o ToString(st.offset + Len(o) - 2) \o "del"
        ELSE ToString(st.offset) \o "del"),
     lead |-> Append(st.lead, st.offset)]

Step(st, o) ==
    CASE o[1] = ":" -> StepIdenticalRun(st, o)
      [] o[1] = "=" -> StepIdenticalSeq(st, o)
      [] o[1] = "*" -> StepSubstitution(st, o)
      [] o[1] = "+" -> StepInsertion(st, o)
      [] o[1] = "-" -> StepDeletion(st, o)
      [] OTHER -> st

\* prefix = "g."; if ctg: prefix = ctg + ":" + prefix
Prefix(c) == IF c # "" THEN c \o ":" \o "g." ELSE "g."

\* the return statement
Compose(c, edits) ==
    IF Len(edits) = 0 THEN Prefix(c) \o "="
    ELSE IF Len(edits) = 1 THEN Prefix(c) \o edits[1]
    ELSE Prefix(c) \o "[" \o join(";", edits) \o "]"

RECURSIVE Loop(_, _)
Loop(st, tokens) == IF tokens = <<>> THEN st ELSE Loop(Step(st, Head(tokens)), Tail(tokens))

\* the whole function, as output_dict calls it
cs_to_hgvs(s, c, first) ==
    Compose(c, Loop([offset |-> first, hgvs_ops |-> <<>>, lead |-> <<>>],
                    findall(upper(s), 1)).hgvs_ops)

(***************************************************************************)
(* Inputs of cs_to_hgvs: difference strings built from at most MaxPieces   *)
(* pieces. The pieces are the five operations of the cs tag, the text "~"  *)
(* that no pattern matches, and a lone base, which extends a preceding     *)
(* "=", "+" or "-" operation and is skipped anywhere else.                 *)
(***************************************************************************)
Pieces ==
    { <<":", "1", "0">>, <<":", "0">>, <<"=", "A", "C">>,
      <<"*", "a", "t">>, <<"*", "g", "c">>,
      <<"+", "g", "a", "c">>, <<"-", "c">>, <<"-", "t", "t", "t">>,
      <<"~">>, <<"a">> }

RECURSIVE Concats(_)
Concats(n) ==
    IF n = 0 THEN {<<>>}
    ELSE Concats(n - 1) \cup {s \o p : s \in Concats(n - 1), p \in Pieces}

CsStrings == Concats(MaxPieces)
Contigs == {"", "chr1"}
StartOffsets == {1, 11}

PluginOff ==
    /\ version = "v10" /\ parameters = <<>> /\ aligner = None /\ pv_pc = "off"
    /\ value = <<>> /\ hits = <<>> /\ pulled = 0 /\ queried = FALSE
    /\ selected = 0 /\ result = None

InitCs ==
    /\ cs_pc = "call"
    /\ cs_string \in CsStrings
    /\ ctg \in Contigs
    /\ start \in StartOffsets
    /\ offset = start
    /\ ops = <<>> /\ nops = 0 /\ op = <<>>
    /\ prev_offset = offset
    /\ hgvs_ops = <<>> /\ lead = <<>>
    /\ cs_result = ""
    /\ PluginOff

\* hgvs_ops = []; prefix = ...; re.findall(CS_STRING_RE, cs_string.upper())
CsCall ==
    /\ cs_pc = "call"
    /\ cs_pc' = "loop"
    /\ ops' = findall(upper(cs_string), 1)
    /\ hgvs_ops' = <<>> /\ lead' = <<>>
    /\ UNCHANGED <<cs_string, ctg, start, offset, nops, op, prev_offset, cs_result, plVars>>

\* one iteration of "for op in ..."
CsLoopBody ==
    /\ cs_pc = "loop"
    /\ nops < Len(ops)
    /\ nops' = nops + 1
    /\ op' = ops[nops + 1]
    /\ prev_offset' = offset
    /\ LET st == Step([offset |-> offset, hgvs_ops |-> hgvs_ops, lead |-> lead], ops[nops + 1])
       IN /\ offset' = st.offset
          /\ hgvs_ops' = st.hgvs_ops
          /\ lead' = st.lead
    /\ UNCHANGED <<cs_pc, cs_string, ctg, start, ops, cs_result, plVars>>

\* the loop is exhausted: return
CsReturn ==
    /\ cs_pc = "loop"
    /\ nops = Len(ops)
    /\ cs_pc' = "done"
    /\ cs_result' = Compose(ctg, hgvs_ops)
    /\ UNCHANGED <<cs_string, ctg, start, offset, ops, nops, op, prev_offset, hgvs_ops, lead, plVars>>

NextCs == CsCall \/ CsLoopBody \/ CsReturn

SpecCs == InitCs /\ [][NextCs]_vars

\* the state just after an iteration of the loop consumed op
AfterOp == cs_pc = "loop" /\ nops > 0

(***************************************************************************)
(* MiniMap2Plugin                                                          *)
(***************************************************************************)
Abs(n) == IF n < 0 THEN -n ELSE n

\* Python truth value of self.aligner and of a str
Falsy(x) == IsNone(x)
NonEmpty(s) == s # ""

\* d[k] = v
DictSet(d, k, v) == [x \in (DOMAIN d) \cup {k} |-> IF x = k THEN v ELSE d[x]]
EmptyDict == [x \in {} |-> None]

\* prepare(): the value assigned to self.aligner (the same in both versions)
prepare(params) ==
    IF NonEmpty(params.seq)
    THEN Some([seq |-> params.seq, fn |-> "", preset |-> params.preset])
    ELSE IF NonEmpty(params.ref)
    THEN Some([seq |-> "", fn |-> params.ref, preset |-> params.preset])
    ELSE None

\* the location block of output_dict (the same in both versions)
LocationFields(params, d, alignment) ==
    IF params.location
    THEN DictSet(DictSet(DictSet(DictSet(d,
            params.prefix \o "_ctg",
                IF ~IsNone(alignment) THEN Some(alignment.v.ctg) ELSE None),
            params.prefix \o "_r_st",
                IF ~IsNone(alignment) THEN Some(alignment.v.r_st) ELSE None),
            params.prefix \o "_r_en",
                IF ~IsNone(alignment) THEN Some(alignment.v.r_en) ELSE None),
            params.prefix \o "_strand",
                IF ~IsNone(alignment) THEN Some(alignment.v.strand) ELSE None)
    ELSE d

\* the cigar and cs blocks of output_dict (the same in both versions)
CigarCsFields(params, d, alignment) ==
    LET d1 == IF params.cigar
              THEN DictSet(d, params.prefix \o "_cigar",
                       IF ~IsNone(alignment) THEN Some(alignment.v.cigar_str) ELSE None)
              ELSE d
    IN IF params.cs
       THEN DictSet(d1, params.prefix \o "_cs",
                IF ~IsNone(alignment) THEN Some(alignment.v.cs) ELSE None)
       ELSE d1

\* variant of output_dict_v10: without an alignment there is nothing to report
output_dict_v10_EmptyWhenAbsent(params, alignment) ==
    IF IsNone(alignment) THEN EmptyDict
    ELSE LET d == CigarCsFields(params, LocationFields(params, EmptyDict, alignment), alignment)
         IN IF params.hgvs
            THEN DictSet(d, params.prefix \o "_hgvs",
                     Some(cs_to_hgvs(alignment.v.cs, alignment.v.ctg, alignment.v.r_st + 1)))
            ELSE d

\* output_dict, version 0.0.10
output_dict_v10(params, alignment) ==
    LET d == CigarCsFields(params, LocationFields(params, EmptyDict, alignment), alignment)
    IN IF params.hgvs
       THEN DictSet(d, params.prefix \o "_hgvs",
                IF ~IsNone(alignment)
                THEN Some(cs_to_hgvs(alignment.v.cs, alignment.v.ctg, alignment.v.r_st + 1))
                ELSE None)
       ELSE d

\* countess.utils.variant.find_variant_string is not part of the plugin: its
\* result is kept as the call that produces it
find_variant_string(pfx, tseq, val, r_st) ==
    [call |-> "find_variant_string", prefix |-> pfx, ref |-> tseq, seq |-> val, off |-> r_st]

\* output_dict, version 0.0.13
output_dict_v13(params, val, alignment) ==
    LET d == CigarCsFields(params, LocationFields(params, EmptyDict, alignment), alignment)
    IN IF params.hgvs
       THEN DictSet(DictSet(d,
                params.prefix \o "_hgvs_g",
                    IF ~IsNone(alignment)
                    THEN Some(find_variant_string("g.", alignment.v.tseq, val, alignment.v.r_st))
                    ELSE None),
                params.prefix \o "_hgvs_p",
                    IF ~IsNone(alignment)
                    THEN Some(find_variant_string("p.", alignment.v.tseq, val, alignment.v.r_st))
                    ELSE None)
       ELSE d

output_dict(ver, params, val, alignment) ==
    IF ver = "v10" THEN output_dict_v10(params, alignment)
    ELSE output_dict_v13(params, val, alignment)

\* aligner.map(value, cs=..., tseq=...): the hits the aligner has for the query,
\* with the difference string and the target sequence filled in only on request
Map(hs, calculate_cs, calculate_tseq) ==
    [k \in 1..Len(hs) |->
        [hs[k] EXCEPT !.cs = IF calculate_cs THEN @ ELSE <<>>,
                      !.tseq = IF calculate_tseq THEN @ ELSE <<>>]]

\* local min_length of process_value
MinLength(ver, params) ==
    IF ver = "v10" THEN params.min_length ELSE Abs(params.min_length)

\* the if of the for loop
SpanTest(ver, z, min_length) ==
    IF ver = "v10" THEN z.r_en - z.r_st >= min_length
    ELSE Abs(z.r_en - z.r_st) >= min_length

\* variant of FirstMatch: the loop keeps the longest hit that passes the test
RECURSIVE LongestMatch(_, _, _, _)
LongestMatch(ver, x, min_length, k) ==
    IF k > Len(x) THEN 0
    ELSE LET rest == LongestMatch(ver, x, min_length, k + 1)
         IN IF ~SpanTest(ver, x[k], min_length) THEN rest
            ELSE IF rest # 0 /\ x[rest].r_en - x[rest].r_st > x[k].r_en - x[k].r_st THEN rest
            ELSE k

\* for z in x: if ...: return -- the index of the hit the loop returns at,
\* scanning from the k-th hit, 0 when the generator is exhausted
RECURSIVE FirstMatch(_, _, _, _)
FirstMatch(ver, x, min_length, k) ==
    IF k > Len(x) THEN 0
    ELSE IF SpanTest(ver, x[k], min_length) THEN k
    ELSE FirstMatch(ver, x, min_length, k + 1)

\* process_value once self.aligner is known to be set, or taken to be
WithAligner(ver, params, val, hs) ==
    LET min_length == MinLength(ver, params)
        calculate_cs == IF ver = "v10" THEN params.cs \/ params.hgvs ELSE params.cs
        calculate_tseq == IF ver = "v10" THEN FALSE ELSE params.hgvs
        x == Map(hs, calculate_cs, calculate_tseq)
        k == FirstMatch(ver, x, min_length, 1)
    IN IF k # 0
       THEN [result |-> Some(output_dict(ver, params, val, Some(x[k]))),
             pulled |-> k, queried |-> TRUE, selected |-> k]
       ELSE [result |-> IF params.drop THEN None
                        ELSE Some(output_dict(ver, params, val, None)),
             pulled |-> Len(x), queried |-> TRUE, selected |-> 0]

\* variant of process_value: no early return, an absent aligner has no hits
process_value_NoGuard(ver, params, algn, val, hs) ==
    IF Falsy(algn)
    THEN [WithAligner(ver, params, val, <<>>) EXCEPT !.queried = FALSE]
    ELSE WithAligner(ver, params, val, hs)

\* process_value: what it returns, how many hits it pulled from the generator,
\* whether it called aligner.map(), and which hit it built the record from
process_value(ver, params, algn, val, hs) ==
    IF Falsy(algn)
    THEN [result |-> None, pulled |-> 0, queried |-> FALSE, selected |-> 0]
    ELSE WithAligner(ver, params, val, hs)

(***************************************************************************)
(* Inputs of the plugin                                                    *)
(***************************************************************************)
Versions == {"v10", "v13"}

\* seq / ref as the user may leave them: an inline sequence, a file, neither
References ==
    { [seq |-> "ACGTTGCA", ref |-> ""],
      [seq |-> "", ref |-> "ref.fa"],
      [seq |-> "", ref |-> ""] }

MinLengths == {-3, 0, 4}

ParameterSets ==
    { [prefix |-> "mm", seq |-> r.seq, ref |-> r.ref, preset |-> "sr",
       min_length |-> m, drop |-> dr, location |-> lo, cigar |-> ci, cs |-> c, hgvs |-> h] :
        r \in References, m \in MinLengths, dr \in BOOLEAN, lo \in BOOLEAN,
        ci \in BOOLEAN, c \in BOOLEAN, h \in BOOLEAN }

\* hits of the aligner: r_st < r_en, spans 1, 3 and 5
HitUniverse ==
    { [ctg |-> "chr1", r_st |-> 0, r_en |-> 1, strand |-> 1, cigar_str |-> "1M",
       cs |-> <<":", "1">>, tseq |-> <<"A">>],
      [ctg |-> "chr1", r_st |-> 2, r_en |-> 5, strand |-> -1, cigar_str |-> "3M",
       cs |-> <<":", "1", "*", "a", "t", ":", "1">>, tseq |-> <<"G", "T", "T">>],
      [ctg |-> "chr2", r_st |-> 0, r_en |-> 5, strand |-> 1, cigar_str |-> "2M1D2M",
       cs |-> <<":", "2", "-", "c", ":", "2">>, tseq |-> <<"A", "C", "C", "T", "T">>] }

RECURSIVE HitSeqs(_)
HitSeqs(n) ==
    IF n = 0 THEN {<<>>}
    ELSE HitSeqs(n - 1) \cup {Append(s, h) : s \in HitSeqs(n - 1), h \in HitUniverse}

Values == { <<"A", "C", "G", "T">> }

CsOff ==
    /\ cs_pc = "off" /\ cs_string = <<>> /\ ctg = "" /\ start = 1 /\ offset = 1
    /\ ops = <<>> /\ nops = 0 /\ op = <<>> /\ prev_offset = 1
    /\ hgvs_ops = <<>> /\ lead = <<>> /\ cs_result = ""

\* the plugin as constructed and configured: aligner = None is the class attribute
Init ==
    /\ version \in Versions
    /\ parameters \in ParameterSets
    /\ aligner = None
    /\ pv_pc = "idle"
    /\ value = <<>> /\ hits = <<>> /\ pulled = 0 /\ queried = FALSE
    /\ selected = 0 /\ result = None
    /\ CsOff

Prepare ==
    /\ pv_pc # "off"
    /\ aligner' = prepare(parameters)
    /\ UNCHANGED <<version, parameters, pv_pc, value, hits, pulled, queried, selected, result, csVars>>

ProcessValue ==
    /\ pv_pc # "off"
    /\ \E val \in Values, hs \in HitSeqs(MaxHits) :
          LET r == process_value(version, parameters, aligner, val, hs)
          IN /\ value' = val
             /\ hits' = hs
             /\ result' = r.result
             /\ pulled' = r.pulled
             /\ queried' = r.queried
             /\ selected' = r.selected
    /\ pv_pc' = "returned"
    /\ UNCHANGED <<version, parameters, aligner, csVars>>

Next == Prepare \/ ProcessValue

Spec == Init /\ [][Next]_vars

(***************************************************************************)
(* Properties of cs_to_hgvs (checked under SpecCs)                         *)
(***************************************************************************)
\* number of edits the tokens ops[1..n] call for: one per "*", "+" or "-" token
RECURSIVE EditTokens(_, _)
EditTokens(tokens, n) ==
    IF n = 0 THEN 0
    ELSE EditTokens(tokens, n - 1) + (IF tokens[n][1] \in {"*", "+", "-"} THEN 1 ELSE 0)

\* the bases of op after its marker
OpBases == SubSeq(op, 2, Len(op))

\* difference strings that are n contiguous substitution groups and nothing else
RECURSIVE SubstRuns(_)
SubstRuns(n) ==
    IF n = 0 THEN {<<>>}
    ELSE {s \o p : s \in SubstRuns(n - 1), p \in {<<"*", "a", "t">>, <<"*", "g", "c">>}}

\* the stepwise run of the loop returns what the function returns
StepwiseAgrees == cs_pc = "done" => cs_result = cs_to_hgvs(cs_string, ctg, start)

\* C3: a run of n contiguous "*XY" groups met at offset p is one operation:
\* it emits one edit, "pX>Y" when n = 1 and "p_(p+n-1)delins" followed by the
\* n query bases when n > 1, and leaves the offset at p + n.
C3_SubstitutionRun ==
    /\ (AfterOp /\ op[1] = "*") =>
         LET n == Len(op) \div 3
             p == prev_offset
             query == [k \in 1..n |-> op[3 * k]]
         IN /\ Len(op) = 3 * n
            /\ Len(hgvs_ops) = EditTokens(ops, nops)
            /\ Last(hgvs_ops) =
                 IF n = 1 THEN ToString(p) \o op[2] \o ">" \o op[3]
                 ELSE ToString(p) \o "_" \o ToString(p + n - 1) \o "delins" \o Text(query)
            /\ offset = p + n
    /\ \A n \in 1..MaxPieces :
         (cs_pc = "done" /\ cs_string \in SubstRuns(n)) => Len(ops) = 1 /\ Len(hgvs_ops) = 1
    /\ cs_to_hgvs(<<":", "1", "0", "*", "a", "t", ":", "1", "0">>, "", 1) = "g.11A>T"
    /\ cs_to_hgvs(<<":", "1", "0", "*", "a", "t", "*", "a", "t", "*", "g", "c", "*", "c", "g">>, "", 1)
         = "g.11_14delinsTTCG"

C3_Witness ==
    /\ AfterOp /\ op = <<"*", "A", "T", "*", "G", "C", "*", "A", "T">>
    /\ prev_offset = 11 /\ offset = 14
    /\ Last(hgvs_ops) = "11_13delinsTCT"

\* C4: a Deletion of L bases met at offset p emits "pdel" when L = 1 and
\* "p_(p+L-1)del" when L > 1.
C4_DeletionRange ==
    /\ (AfterOp /\ op[1] = "-") =>
         LET L == Len(OpBases)
             p == prev_offset
         IN /\ Len(hgvs_ops) = EditTokens(ops, nops)
            /\ Last(hgvs_ops) =
                 IF L = 1 THEN ToString(p) \o "del"
                 ELSE ToString(p) \o "_" \o ToString(p + L - 1) \o "del"
    /\ (cs_pc = "done" /\ start = 1 /\ ctg = ""
          /\ cs_string = <<":", "1", "0", "-", "c", ":", "1", "0">>) => cs_result = "g.11del"
    /\ (cs_pc = "done" /\ start = 1 /\ ctg = ""
          /\ cs_string = <<":", "1", "0", "-", "t", "t", "t", ":", "1", "0">>)
         => cs_result = "g.11_13del"

C4_Witness ==
    /\ cs_pc = "done" /\ start = 1 /\ ctg = ""
    /\ cs_string = <<":", "1", "0", "-", "t", "t", "t", ":", "1", "0">>
    /\ cs_result = "g.11_13del"

\* C5: after a Deletion of L bases met at offset p the offset is p + L, so
\* ":10-c*at" reports its substitution at 12.
C5_DeletionAdvance ==
    /\ (AfterOp /\ op[1] = "-") => offset = prev_offset + Len(OpBases)
    /\ (cs_pc = "done" /\ start = 1 /\ ctg = ""
          /\ cs_string = <<":", "1", "0", "-", "c", "*", "a", "t">>)
         => cs_result = "g.[11del;12A>T]"

\* C6: an Insertion of bases B met at offset p emits "(p-1)_pinsB", B in upper
\* case, and leaves the offset at p + 1 whatever the length of B.
C6_Insertion ==
    /\ (AfterOp /\ op[1] = "+") =>
         LET p == prev_offset
         IN /\ \A k \in 1..Len(OpBases) : OpBases[k] \in Bases
            /\ Len(hgvs_ops) = EditTokens(ops, nops)
            /\ Last(hgvs_ops) =
                 ToString(p - 1) \o "_" \o ToString(p) \o "ins" \o Text(OpBases)
            /\ offset = p + 1
    /\ (cs_pc = "done" /\ start = 1 /\ ctg = ""
          /\ cs_string = <<":", "1", "0", "+", "g", "a", "c", ":", "1", "0">>)
         => cs_result = "g.10_11insGAC"

C6_Witness ==
    /\ AfterOp /\ op = <<"+", "G", "A", "C", "A">>
    /\ prev_offset = 11 /\ offset = 12
    /\ Last(hgvs_ops) = "10_11insGACA"

\* an identity token emits no edit
NoEditEmitted == Len(hgvs_ops) = EditTokens(ops, nops - 1)

\* C7 as stated: "=" followed by k bases advances the offset by k - 1, ":len"
\* advances it by len; neither emits an edit.
C7_IdenticalSeqKMinus1 ==
    /\ (AfterOp /\ op[1] = "=") => offset = prev_offset + (Len(OpBases) - 1) /\ NoEditEmitted
    /\ (AfterOp /\ op[1] = ":") => offset = prev_offset + int(OpBases) /\ NoEditEmitted

\* C7 amended: "=" followed by k bases advances the offset by k (len(op) - 1 with
\* the "=" counted in len(op)), ":len" advances it by len; neither emits an edit.
C7_IdenticalAdvance ==
    /\ (AfterOp /\ op[1] = "=") => offset = prev_offset + Len(OpBases) /\ NoEditEmitted
    /\ (AfterOp /\ op[1] = ":") => offset = prev_offset + int(OpBases) /\ NoEditEmitted
    /\ (AfterOp /\ op = <<":", "1", "0">>) => offset = prev_offset + 10

C7_Witness ==
    /\ AfterOp /\ op = <<"=", "A", "C", "A">>
    /\ offset = prev_offset + 3
    /\ nops = 2 /\ ops[1][1] = "-" /\ Len(hgvs_ops) = 1

\* C8: the offset never decreases: after any token it is >= the offset before
\* that token, and >= the initial offset.
C8_OffsetMonotone ==
    cs_pc # "off" => offset >= prev_offset /\ prev_offset >= start

C8_Witness ==
    /\ AfterOp /\ op = <<":", "0">> /\ offset = prev_offset
    /\ nops = 3 /\ offset > start

\* C10: the leading position number of each emitted edit is >= that of the
\* edit emitted before it.
C10_PositionsAscend ==
    /\ Len(lead) = Len(hgvs_ops)
    /\ \A k \in 2..Len(lead) : lead[k] >= lead[k - 1]

C10_Witness ==
    /\ cs_pc = "done" /\ Len(lead) = 3
    /\ ops[1][1] = "*" /\ ops[2][1] = "+" /\ ops[3][1] = "-"
    /\ lead[2] = lead[1]

(***************************************************************************)
(* Properties of process_value (checked under Spec)                        *)
(***************************************************************************)
\* the last call queried the aligner, i.e. an aligner was configured
Answered == pv_pc = "returned" /\ queried

\* |r_en - r_st| >= min_length for the k-th hit, min_length as configured
Qualifies(k) == Abs(hits[k].r_en - hits[k].r_st) >= parameters.min_length

\* the returned record shows the fields of hit z that the toggles let through
RecordOf(z) ==
    /\ ~IsNone(result)
    /\ parameters.location =>
         /\ result.v[parameters.prefix \o "_ctg"] = Some(z.ctg)
         /\ result.v[parameters.prefix \o "_r_st"] = Some(z.r_st)
         /\ result.v[parameters.prefix \o "_r_en"] = Some(z.r_en)
         /\ result.v[parameters.prefix \o "_strand"] = Some(z.strand)
    /\ parameters.cigar => result.v[parameters.prefix \o "_cigar"] = Some(z.cigar_str)

\* C1: with a min_length in its domain (>= 0), the record is built from the
\* first hit, in the aligner's order, whose span |r_en - r_st| is >= min_length:
\* no earlier hit passes the test, no passing hit is skipped for a later one,
\* and no hit after the selected one is pulled from the generator.
C1_FirstQualifyingHit ==
    (Answered /\ parameters.min_length >= 0) =>
        IF \E k \in 1..Len(hits) : Qualifies(k)
        THEN LET f == CHOOSE k \in 1..Len(hits) :
                        Qualifies(k) /\ \A j \in 1..(k - 1) : ~Qualifies(j)
             IN selected = f /\ pulled = f /\ RecordOf(hits[f])
        ELSE selected = 0 /\ pulled = Len(hits)

C1_Witness ==
    /\ Answered /\ parameters.min_length = 0 /\ parameters.location
    /\ Len(hits) = 2
    /\ hits[1].r_en - hits[1].r_st = 3 /\ hits[2].r_en - hits[2].r_st = 5
    /\ selected = 1 /\ pulled = 1
    /\ result.v[parameters.prefix \o "_r_en"] = Some(hits[1].r_en)

\* C2: an aligner is configured and no hit qualifies (no hit at all, or every
\* span below min_length): with drop the call returns no record; without drop
\* it returns a record with the keys a matched hit gives under the same prefix
\* and toggles, every value None.
C2_NoQualifyingHit ==
    (Answered /\ \A k \in 1..Len(hits) : ~Qualifies(k)) =>
        IF parameters.drop THEN IsNone(result)
        ELSE /\ ~IsNone(result)
             /\ \A h \in HitUniverse :
                    DOMAIN result.v = DOMAIN output_dict(version, parameters, value, Some(h))
             /\ \A key \in DOMAIN result.v : IsNone(result.v[key])

C2_Witness ==
    /\ Answered /\ Len(hits) = 2 /\ \A k \in 1..Len(hits) : ~Qualifies(k)
    /\ ~parameters.drop /\ version = "v10"
    /\ parameters.location /\ parameters.cigar /\ parameters.cs /\ parameters.hgvs
    /\ Cardinality(DOMAIN result.v) = 7
    /\ IsNone(result.v["mm_hgvs"])

\* C9: with no aligner configured (neither seq nor ref given to prepare, or
\* prepare not run), process_value returns no record whatever drop and the
\* toggles are, and does not query an aligner.
C9_NoAligner ==
    (pv_pc = "returned" /\ IsNone(aligner)) =>
        IsNone(result) /\ ~queried /\ pulled = 0

C9_Witness ==
    /\ pv_pc = "returned" /\ IsNone(aligner)
    /\ ~parameters.drop /\ parameters.hgvs /\ parameters.location
    /\ Len(hits) = 2 /\ IsNone(result)

====
